---- MODULE Spec2Model ----
(***************************************************************************)
(* The Omnii add-on connector: the session/authentication lifecycle of     *)
(* OmniiGrpcClient (src/omnii/omnii_connector/grpc_client.py), its three   *)
(* self-rescheduling report tasks, the main program (main.py) and the      *)
(* credential store (enrollment_store.py).                                 *)
(*                                                                         *)
(* Threads: the main thread runs main(); every threading.Timer that fires  *)
(* runs its _X_loop callback in a thread of its own.  A step of the model  *)
(* is a stretch of one thread's code between two points where another      *)
(* thread's writes can be observed.                                        *)
(***************************************************************************)
EXTENDS Integers, FiniteSets, Sequences, TLC

\* ------------------------------------------------------------ bounds
\* Timer objects (and callback threads) of one kind that can exist at once.
MaxTimers == 2

\* ------------------------------------------------- program constants
\* _token_expired: int(time.time()) >= int(expires_at) - 30
TOKEN_SKEW_SECONDS == 30
\* _heartbeat_loop: (time.time() - last_full_info_time) >= 300
FULL_INFO_SECONDS == 300

\* Python's None, for string-valued and for integer-valued attributes.
None == "None"
NoneInt == -1

Kinds == {"hb", "upd", "stats"}
Slots == 1..MaxTimers
Main == <<"main", 0>>
TimerIds == Kinds \X Slots
Threads == {Main} \cup TimerIds

\* The attribute of the client that holds the Timer of a kind.
TimerField(k) ==
    CASE k = "hb" -> "heartbeat_timer"
      [] k = "upd" -> "update_report_timer"
      [] k = "stats" -> "stats_report_timer"

\* The instants at which the clock is read (time.time(), seconds since the
\* epoch): the start of main(), a second later, 300 seconds later.
Instants == {1000, 1001, 1300}
\* The instant at which main() starts.
StartInstant == CHOOSE t \in Instants : \A u \in Instants : t <= u
\* Lifetimes of the access tokens the server issues.
TokenLifetimes == {31}

\* ------------------------------------------------------ Python dicts
\* A dict is a function from its keys; dict.get(k) is None for a missing key.
NoneDict == [none |-> TRUE]

Get(d, k) == IF k \in DOMAIN d THEN d[k] ELSE None

GetInt(d, k) == IF k \in DOMAIN d THEN d[k] ELSE NoneInt

\* dict.update / {**a, **b}: the keys of b override those of a.
Update(a, b) ==
    [k \in (DOMAIN a) \cup (DOMAIN b) |-> IF k \in DOMAIN b THEN b[k] ELSE a[k]]

\* Truthiness of an Optional[str] and of an Optional[int].
Truthy(s) == s # None /\ s # ""

TruthyInt(n) == n # NoneInt /\ n # 0

\* ------------------------------------------------------------- JSON
\* json.dump writes None as null and a string as a quoted string;
\* json.load reads them back.
JsonEncode(v) == IF v = None THEN <<"null">> ELSE <<"string", v>>

JsonDecode(j) == IF j[1] = "null" THEN None ELSE j[2]

JsonDump(d) == [kind |-> "json", obj |-> [k \in DOMAIN d |-> JsonEncode(d[k])]]

\* A file that is missing, and one whose text is no JSON document.
Absent == [kind |-> "absent"]
Garbage == [kind |-> "garbage"]

\* ------------------------------------------------- enrollment_store
\* save_enrollment_data: credentials.json first, enrollment.json second.  An
\* OSError before the first write leaves both files alone; one between the
\* two writes leaves the new credentials beside the old metadata.
SaveOutcomes == {"ok", "error_first", "error_second"}

\* A save_enrollment_data that leaves grpcServerUrl out of enrollment.json.
save_without_server(fs, enrollment_data, outcome) ==
    LET credentials ==
            JsonDump([instanceId |-> Get(enrollment_data, "instanceId"),
                      token |-> Get(enrollment_data, "token")])
        metadata == JsonDump([instanceId |-> Get(enrollment_data, "instanceId")])
    IN CASE outcome = "ok" -> [cred |-> credentials, enr |-> metadata]
         [] outcome = "error_first" -> fs
         [] outcome = "error_second" -> [fs EXCEPT !.cred = credentials]

save_enrollment_data(fs, enrollment_data, outcome) ==
    LET credentials ==
            JsonDump([instanceId |-> Get(enrollment_data, "instanceId"),
                      token |-> Get(enrollment_data, "token")])
        metadata ==
            JsonDump([instanceId |-> Get(enrollment_data, "instanceId"),
                      grpcServerUrl |-> Get(enrollment_data, "grpcServerUrl")])
    IN CASE outcome = "ok" -> [cred |-> credentials, enr |-> metadata]
         [] outcome = "error_first" -> fs
         [] outcome = "error_second" -> [fs EXCEPT !.cred = credentials]

\* An exception, as the value of the code that raised it.
Exception == [raised |-> TRUE]

\* load_enrollment_data, the body of its try: None when a file is missing;
\* json.load raises on a file that does not parse, and the log line raises
\* KeyError when the metadata has no instanceId.
load_try(fs) ==
    IF fs.cred.kind = "absent" \/ fs.enr.kind = "absent" THEN NoneDict
    ELSE IF fs.enr.kind # "json" \/ fs.cred.kind # "json" THEN Exception
    ELSE LET enrollment_metadata == [k \in DOMAIN fs.enr.obj |-> JsonDecode(fs.enr.obj[k])]
             credentials == [k \in DOMAIN fs.cred.obj |-> JsonDecode(fs.cred.obj[k])]
             enrollment_data ==
                 Update(enrollment_metadata, [token |-> Get(credentials, "token")])
         IN IF "instanceId" \in DOMAIN enrollment_data THEN enrollment_data ELSE Exception

\* A load_enrollment_data without its `except Exception`.
load_uncaught(fs) == load_try(fs)

\* load_enrollment_data: `except Exception` turns every error into None.
load_enrollment_data(fs) ==
    IF load_try(fs) = Exception THEN NoneDict ELSE load_try(fs)

\* os.remove(CREDENTIALS_PATH), done by an operator.
DeleteSecret(fs) == [fs EXCEPT !.cred = Absent]

\* ------------------------------------------------------------ state
VARIABLES
    self,     \* the OmniiGrpcClient object's attributes
    chan,     \* the grpc.Channel the stub is bound to: "none", "open", "closed"
    files,    \* /data: [cred |-> credentials.json, enr |-> enrollment.json]
    now,      \* time.time(), in seconds since the start
    timers,   \* the threading.Timer objects: "free" or "pending"
    thr,      \* each thread's position and local variables
    hist      \* what has happened (history, read by the properties only)

vars == <<self, chan, files, now, timers, thr, hist>>

\* A thread that is not running.  ops, refreshes, retries, allUnauth and
\* outcome describe the call of _call_with_auth the thread is in: the calls of
\* the operation made, the RefreshToken calls made, those made because of an
\* UNAUTHENTICATED answer, whether every answer so far was UNAUTHENTICATED.
\* payload is what the request of the send carries.
Idle ==
    [pc |-> "idle", kind |-> "none", ctx |-> "none",
     ops |-> 0, refreshes |-> 0, retries |-> 0,
     allUnauth |-> TRUE, outcome |-> "none", answer |-> "none",
     payload |-> "none"]

\* OmniiGrpcClient.__init__
NewClient ==
    [enrollment_data |-> NoneDict, channel |-> FALSE, stub |-> FALSE,
     access_token |-> None, refresh_token |-> None,
     access_token_expires_at |-> NoneInt, running |-> FALSE,
     heartbeat_timer |-> 0, update_report_timer |-> 0, stats_report_timer |-> 0,
     last_full_info_time |-> 0]

\* What an earlier run of the add-on that enrolled as inst0 left in /data.
EarlierRun ==
    save_enrollment_data([cred |-> Absent, enr |-> Absent],
        [instanceId |-> "inst0", accessToken |-> "A0", refreshToken |-> "R0",
         accessTokenExpiresAt |-> 3600, grpcServerUrl |-> "srv"], "ok")

\* /data at start: empty, left by an earlier run, the same with the secret
\* deleted, or with a credentials file that does not parse.
InitialFiles ==
    {[cred |-> Absent, enr |-> Absent],
     EarlierRun,
     DeleteSecret(EarlierRun),
     [EarlierRun EXCEPT !.cred = Garbage]}

Init ==
    /\ self = NewClient
    /\ chan = "none"
    /\ files \in InitialFiles
    /\ now = StartInstant
    /\ timers = [id \in TimerIds |-> "free"]
    /\ thr = [t \in Threads |-> IF t = Main THEN [Idle EXCEPT !.pc = "load"] ELSE Idle]
    /\ hist = [aliveFalse |-> FALSE]

\* The process is alive: main() has neither returned nor exited.
Alive == thr[Main].pc \notin {"done", "exit", "crashed"}

\* The clock advances.
Tick ==
    /\ Alive
    /\ \E t \in Instants : t > now /\ now' = t
    /\ UNCHANGED <<self, chan, files, timers, thr, hist>>

\* ------------------------------------------------------ token logic
\* A _token_expired that compares with > where the code has >=.
token_expired_strict(c, t) ==
    IF ~TruthyInt(c.access_token_expires_at) THEN TRUE
    ELSE t > c.access_token_expires_at - TOKEN_SKEW_SECONDS

\* _token_expired
token_expired(c, t) ==
    IF ~TruthyInt(c.access_token_expires_at) THEN TRUE
    ELSE t >= c.access_token_expires_at - TOKEN_SKEW_SECONDS

\* _ensure_access_token: whether it calls refresh_access_token
ensure_refreshes(c, t) == ~Truthy(c.access_token) \/ token_expired(c, t)

\* refresh_access_token: whether it gets past its first return
refresh_possible(c) == c.stub /\ Truthy(c.refresh_token)

\* ----------------------------------------------------------- server
\* What a successful Enroll call can answer: tokens, an access token with no
\* expiry, no access token, a valid access token with no refresh token.
EnrollResponses(t) ==
    {[success |-> TRUE, instance_id |-> "inst1", access_token |-> r[1],
      refresh_token |-> r[2], access_token_expires_at |-> r[3]] :
        r \in {<<"A0", "R0", t + ttl>> : ttl \in TokenLifetimes}
               \cup {<<"A0", "R0", 0>>, <<"", "R0", 0>>}
               \cup {<<"A0", "", t + ttl>> : ttl \in TokenLifetimes}}

\* What a successful RefreshToken call can answer: a new access token, with
\* or without a new refresh token.
RefreshResponses(t) ==
    {[success |-> TRUE, access_token |-> "A1", refresh_token |-> rt,
      access_token_expires_at |-> t + ttl] :
        rt \in {"", "R1"}, ttl \in TokenLifetimes}


\* ---------------------------------------------------------- threads
\* Thread t's locals become r; the other threads keep theirs.
Becomes(t, r) == thr' = [thr EXCEPT ![t] = r]

Goto(t, pc) == Becomes(t, [thr[t] EXCEPT !.pc = pc])

\* main() enrolling whatever load_existing_enrollment returned.
LoadExistingAlwaysEnrolls ==
    /\ thr[Main].pc = "load"
    /\ LET found == load_enrollment_data(files)
       IN /\ self' = [self EXCEPT !.enrollment_data = found]
          /\ Goto(Main, "enroll")
    /\ UNCHANGED <<chan, files, now, timers, hist>>

\* main(): client.load_existing_enrollment()
LoadExisting ==
    /\ thr[Main].pc = "load"
    /\ LET found == load_enrollment_data(files)
       IN /\ self' = [self EXCEPT !.enrollment_data = found]
          /\ Goto(Main, IF found # NoneDict THEN "connect" ELSE "enroll")
    /\ UNCHANGED <<chan, files, now, timers, hist>>

\* enroll(), to the Enroll call: _create_channel raises (caught, False, main
\* exits) or the call is sent.
Enroll ==
    /\ thr[Main].pc = "enroll"
    /\ \E created \in BOOLEAN : Goto(Main, IF created THEN "enroll_wait" ELSE "exit")
    /\ UNCHANGED <<self, chan, files, now, timers, hist>>

\* enroll(), from the answer of the Enroll call: an RpcError or success=False
\* return False; success stores the record and saves it, and an error of the
\* save is caught by `except Exception` and returns False as well.
EnrollFails ==
    /\ thr[Main].pc = "enroll_wait"
    /\ Goto(Main, "exit")
    /\ UNCHANGED <<self, chan, files, now, timers, hist>>

\* enroll() returning True whether or not the save succeeded.
EnrollSucceedsUnsaved ==
    /\ thr[Main].pc = "enroll_wait"
    /\ \E response \in EnrollResponses(now), outcome \in SaveOutcomes :
         LET data == [instanceId |-> response.instance_id,
                      accessToken |-> response.access_token,
                      refreshToken |-> response.refresh_token,
                      accessTokenExpiresAt |-> response.access_token_expires_at,
                      grpcServerUrl |-> "srv"]
         IN /\ self' = [self EXCEPT !.enrollment_data = data]
            /\ files' = save_enrollment_data(files, data, outcome)
            /\ Goto(Main, "connect")
    /\ UNCHANGED <<chan, now, timers, hist>>

EnrollSucceeds ==
    /\ thr[Main].pc = "enroll_wait"
    /\ \E response \in EnrollResponses(now), outcome \in SaveOutcomes :
         LET data == [instanceId |-> response.instance_id,
                      accessToken |-> response.access_token,
                      refreshToken |-> response.refresh_token,
                      accessTokenExpiresAt |-> response.access_token_expires_at,
                      grpcServerUrl |-> "srv"]
         IN /\ self' = [self EXCEPT !.enrollment_data = data]
            /\ files' = save_enrollment_data(files, data, outcome)
            /\ Goto(Main, IF outcome = "ok" THEN "connect" ELSE "exit")
    /\ UNCHANGED <<chan, now, timers, hist>>

\* _call_with_auth ends with an exception, which send_X catches; unauth says
\* whether it is the server's UNAUTHENTICATED.  Of the call's counters the
\* retries are kept, for a call that was answered UNAUTHENTICATED throughout.
Raised(r, unauth) ==
    [Idle EXCEPT !.pc = "cwa_done", !.kind = r.kind, !.outcome = "raised",
                 !.retries = IF r.allUnauth /\ unauth THEN r.retries ELSE 0,
                 !.allUnauth = r.allUnauth /\ unauth]

\* _call_with_auth ends with the OSError of save_enrollment_data, which
\* refresh_access_token lets through.
SaveFailed(r) == [Raised(r, FALSE) EXCEPT !.answer = "save_failed"]

\* _call_with_auth returns the server's answer a.  send_heartbeat acts on
\* alive; the reports only log whether the report was accepted.
Returned(r, a) ==
    [Idle EXCEPT !.pc = "cwa_done", !.kind = r.kind, !.outcome = "ok",
                 !.allUnauth = FALSE,
                 !.answer = IF r.kind = "hb" THEN a ELSE "logged"]

\* refresh_access_token, to the RefreshToken call, entered by thread t from
\* ctx ("connect", "ensure" or "retry"); r is t's locals on entry.
RefreshCall(t, r, ctx) ==
    Becomes(t, [r EXCEPT !.pc = "refresh_wait", !.ctx = ctx,
                         !.refreshes = r.refreshes + 1])

\* rpc(request, timeout, metadata) in _call_with_auth: the call is in flight.
InvokeOp(t, r) ==
    Becomes(t, [r EXCEPT !.pc = "rpc_wait", !.ops = r.ops + 1])

\* connect_and_handshake without its check of the refresh token.
ConnectNoTokenCheck ==
    /\ thr[Main].pc = "connect"
    /\ IF self.enrollment_data = NoneDict \/ DOMAIN self.enrollment_data = {}
       THEN Goto(Main, "exit") /\ UNCHANGED <<self, chan>>
       ELSE \E created \in BOOLEAN :
              IF ~created
              THEN Goto(Main, "crashed") /\ UNCHANGED <<self, chan>>
              ELSE LET c == [self EXCEPT
                               !.channel = TRUE,
                               !.stub = TRUE,
                               !.access_token = Get(self.enrollment_data, "accessToken"),
                               !.refresh_token = Get(self.enrollment_data, "refreshToken"),
                               !.access_token_expires_at =
                                   GetInt(self.enrollment_data, "accessTokenExpiresAt")]
                   IN /\ chan' = "open"
                      /\ IF ensure_refreshes(c, now) /\ ~refresh_possible(c)
                         THEN self' = c /\ Goto(Main, "exit")
                         ELSE IF ensure_refreshes(c, now)
                         THEN /\ self' = c
                              /\ Becomes(Main, [thr[Main] EXCEPT !.pc = "refresh_wait",
                                                  !.ctx = "connect", !.refreshes = 1])
                         ELSE /\ self' = [c EXCEPT !.running = TRUE]
                              /\ Goto(Main, "start_hb")
    /\ UNCHANGED <<files, now, timers, hist>>

\* connect_and_handshake from its call of _create_channel on, to the
\* RefreshToken call of _ensure_access_token or to its end.  An error of
\* _create_channel is not caught: main() dies of it.
ConnectOn(created) ==
    IF ~created
    THEN Goto(Main, "crashed") /\ UNCHANGED <<self, chan>>
    ELSE LET c == [self EXCEPT
                     !.channel = TRUE,
                     !.stub = TRUE,
                     !.access_token = Get(self.enrollment_data, "accessToken"),
                     !.refresh_token = Get(self.enrollment_data, "refreshToken"),
                     !.access_token_expires_at =
                         GetInt(self.enrollment_data, "accessTokenExpiresAt")]
         IN /\ chan' = "open"
            /\ IF ~Truthy(c.refresh_token)
               THEN self' = c /\ Goto(Main, "exit")
               ELSE IF ensure_refreshes(c, now)
               THEN /\ self' = c
                    /\ Becomes(Main, [thr[Main] EXCEPT !.pc = "refresh_wait",
                                        !.ctx = "connect", !.refreshes = 1])
               ELSE /\ self' = [c EXCEPT !.running = TRUE]
                    /\ Goto(Main, "start_hb")

\* connect_and_handshake.
Connect ==
    /\ thr[Main].pc = "connect"
    /\ IF self.enrollment_data = NoneDict \/ DOMAIN self.enrollment_data = {}
       THEN Goto(Main, "exit") /\ UNCHANGED <<self, chan>>
       ELSE \E created \in BOOLEAN : ConnectOn(created)
    /\ UNCHANGED <<files, now, timers, hist>>

\* The errors and refusals a call can end with.  On a channel that stop()
\* has closed a call ends with an error only (a call made on it raises, one in
\* flight is cancelled).
Failures == IF chan = "closed" THEN {"error"} ELSE {"unauth", "error", "rejected"}

\* A refresh_access_token that drops the cached access token when the
\* refresh fails.
RefreshFailsClears(t) ==
    /\ Alive
    /\ thr[t].pc = "refresh_wait"
    /\ \E why \in Failures :
         IF thr[t].ctx = "connect"
         THEN Becomes(t, [Idle EXCEPT !.pc = "exit"])
         ELSE Becomes(t, Raised(thr[t], why = "unauth"))
    /\ self' = [self EXCEPT !.access_token = None]
    /\ UNCHANGED <<chan, files, now, timers, hist>>

\* refresh_access_token, from an answer that is no success: an RpcError
\* ("unauth", "error") or success=False ("rejected"); it returns False.
\* connect_and_handshake then returns False and main() exits,
\* _call_with_auth raises (RuntimeError, or the error it was handling).
RefreshFails(t) ==
    /\ Alive
    /\ thr[t].pc = "refresh_wait"
    /\ \E why \in Failures :
         IF thr[t].ctx = "connect"
         THEN Becomes(t, [Idle EXCEPT !.pc = "exit"])
         ELSE Becomes(t, Raised(thr[t], why = "unauth"))
    /\ UNCHANGED <<self, chan, files, now, timers, hist>>

\* refresh_access_token assigning the refresh token of every answer.
refresh_applied_overwrites(c, response) ==
    [c EXCEPT !.access_token = response.access_token,
              !.refresh_token = response.refresh_token,
              !.access_token_expires_at = response.access_token_expires_at]

\* refresh_access_token, from an answer with success=True: the three token
\* attributes are set, the refresh token only if the answer carries one.
refresh_applied(c, response) ==
    [c EXCEPT !.access_token = response.access_token,
              !.refresh_token = IF response.refresh_token # ""
                                THEN response.refresh_token ELSE @,
              !.access_token_expires_at = response.access_token_expires_at]

\* The record refresh_access_token writes: enrollment_data.update({...}) with
\* the tokens the attributes hold.
refreshed_record(c) ==
    Update(c.enrollment_data,
           [accessToken |-> c.access_token, refreshToken |-> c.refresh_token,
            accessTokenExpiresAt |-> c.access_token_expires_at])

\* refresh_access_token, from an answer with success=True to its end: the
\* tokens are set, the record is updated and saved, and True returned; the
\* caller goes on (connect_and_handshake sets running, _call_with_auth makes
\* the call).  An error of the save is not caught in refresh_access_token.
RefreshSucceeds(t) ==
    /\ Alive
    /\ thr[t].pc = "refresh_wait"
    /\ chan = "open"
    /\ \E response \in RefreshResponses(now), outcome \in SaveOutcomes :
         LET c1 == refresh_applied(self, response)
             c == [c1 EXCEPT !.enrollment_data = refreshed_record(c1)]
             r == [thr[t] EXCEPT !.allUnauth = FALSE]
         IN /\ files' = save_enrollment_data(files, c.enrollment_data, outcome)
            /\ IF thr[t].ctx = "connect"
               THEN IF outcome = "ok"
                    THEN /\ self' = [c EXCEPT !.running = TRUE]
                         /\ Becomes(t, [Idle EXCEPT !.pc = "start_hb"])
                    ELSE self' = c /\ Becomes(t, [Idle EXCEPT !.pc = "crashed"])
               ELSE /\ self' = c
                    /\ IF outcome = "ok"
                       THEN InvokeOp(t, r)
                       ELSE Becomes(t, SaveFailed(r))
    /\ UNCHANGED <<chan, now, timers, hist>>

\* _call_with_auth, its start: _ensure_access_token, then the call.  What
\* the request carries plays no part from here on.
EnsureAccessToken(t) ==
    /\ Alive
    /\ thr[t].pc = "ensure"
    /\ LET r == [thr[t] EXCEPT !.payload = "none"]
       IN IF ensure_refreshes(self, now)
          THEN IF refresh_possible(self)
               THEN RefreshCall(t, r, "ensure")
               ELSE Becomes(t, Raised(r, FALSE))
          ELSE InvokeOp(t, r)
    /\ UNCHANGED <<self, chan, files, now, timers, hist>>

\* What the server answers to a call of a kind: Heartbeat says alive or not,
\* the reports say accepted or not.
Answers(kind) == IF kind = "hb" THEN {"alive", "dead"} ELSE {"accepted", "rejected"}

\* A _call_with_auth that refreshes and calls again after its second
\* UNAUTHENTICATED answer as well.
OpAnswerRetriesAgain(t) ==
    /\ Alive
    /\ thr[t].pc = "rpc_wait"
    /\ \E a \in (IF chan = "open" THEN Answers(thr[t].kind) ELSE {})
                 \cup (Failures \ {"rejected"}) :
         CASE a = "unauth" ->
                IF thr[t].ops <= 2
                THEN RefreshCall(t, [thr[t] EXCEPT !.retries = thr[t].retries + 1],
                                 "retry")
                ELSE Becomes(t, Raised(thr[t], TRUE))
           [] a = "error" -> Becomes(t, Raised(thr[t], FALSE))
           [] OTHER -> Becomes(t, Returned(thr[t], a))
    /\ UNCHANGED <<self, chan, files, now, timers, hist>>

\* _call_with_auth, from the answer of the call.  UNAUTHENTICATED to the first
\* call refreshes and, if that succeeds, calls again; every other error, and
\* any error of the second call, is raised.
OpAnswer(t) ==
    /\ Alive
    /\ thr[t].pc = "rpc_wait"
    /\ \E a \in (IF chan = "open" THEN Answers(thr[t].kind) ELSE {})
                 \cup (Failures \ {"rejected"}) :
         CASE a = "unauth" ->
                IF thr[t].ops = 1
                THEN IF refresh_possible(self)
                     THEN RefreshCall(t, [thr[t] EXCEPT !.retries = thr[t].retries + 1],
                                      "retry")
                     ELSE Becomes(t, Raised(thr[t], TRUE))
                ELSE Becomes(t, Raised(thr[t], TRUE))
           [] a = "error" -> Becomes(t, Raised(thr[t], FALSE))
           [] OTHER -> Becomes(t, Returned(thr[t], a))
    /\ UNCHANGED <<self, chan, files, now, timers, hist>>

\* What the supervisor API hands a send: data, nothing, or an exception.
ProviderOutcomes(kind) ==
    IF kind = "upd" THEN {"data", "raise"} ELSE {"data", "none", "raise"}

\* Where a thread goes on when _schedule_X returns: a timer thread ends, the
\* main thread goes on in start_heartbeat, which calls start_update_reporting
\* and start_stats_reporting, and then waits in main().
AfterSchedule(t, kind) ==
    IF t # Main THEN Idle
    ELSE [Idle EXCEPT !.pc = CASE kind = "hb" -> "start_upd"
                              [] kind = "upd" -> "start_stats"
                              [] kind = "stats" -> "wait"]

\* After a send, with self.running as c has it: `if self.running:
\* self._schedule_X()` in _X_loop and `if not self.running: return` in
\* _schedule_X; the Timer is created in a later step.
AfterSend(t, kind, c) ==
    IF c.running THEN [Idle EXCEPT !.pc = "create", !.kind = kind]
    ELSE AfterSchedule(t, kind)

\* What the request of a send carries: a report; for a heartbeat the client
\* timestamp, and with it the system info when full info is asked for and
\* supervisor.get_info() returned some.
Payload(k, full, got) ==
    IF k # "hb" THEN "report"
    ELSE IF full /\ got = "data" THEN "timestamp+system_info" ELSE "timestamp"

\* What send_X fails with before _call_with_auth: the error of the telemetry
\* provider, caught by `except Exception`.
ProviderRaised(kind) ==
    [Idle EXCEPT !.pc = "cwa_done", !.kind = kind, !.outcome = "raised",
                 !.allUnauth = FALSE]

\* A send_heartbeat that notes the time of a full-info heartbeat only when
\* system info was attached.
SendEntersNotesAttached(t, k, full) ==
    IF ~self.running \/ ~self.stub
    THEN Becomes(t, AfterSend(t, k, self)) /\ UNCHANGED self
    ELSE \E got \in (IF k = "hb" /\ ~full THEN {"data"} ELSE ProviderOutcomes(k)) :
           CASE got = "raise" -> Becomes(t, ProviderRaised(k)) /\ UNCHANGED self
             [] got = "none" /\ k = "stats" ->
                  Becomes(t, AfterSend(t, k, self)) /\ UNCHANGED self
             [] OTHER ->
                  /\ Becomes(t, [Idle EXCEPT !.pc = "ensure", !.kind = k,
                                             !.payload = Payload(k, full, got)])
                  /\ self' = IF k = "hb" /\ full /\ got = "data"
                             THEN [self EXCEPT !.last_full_info_time = now]
                             ELSE self

\* send_heartbeat / send_update_report / send_stats_report of kind k by thread
\* t, to the start of _call_with_auth.  Not running, or no stub: it returns.
\* The telemetry is gathered: an error of the provider ends the send, the
\* stats report is skipped when there are no stats, and a heartbeat with full
\* info notes the time.
SendEnters(t, k, full) ==
    IF ~self.running \/ ~self.stub
    THEN Becomes(t, AfterSend(t, k, self)) /\ UNCHANGED self
    ELSE \E got \in (IF k = "hb" /\ ~full THEN {"data"} ELSE ProviderOutcomes(k)) :
           CASE got = "raise" -> Becomes(t, ProviderRaised(k)) /\ UNCHANGED self
             [] got = "none" /\ k = "stats" ->
                  Becomes(t, AfterSend(t, k, self)) /\ UNCHANGED self
             [] OTHER ->
                  /\ Becomes(t, [Idle EXCEPT !.pc = "ensure", !.kind = k,
                                             !.payload = Payload(k, full, got)])
                  /\ self' = IF k = "hb" /\ full
                             THEN [self EXCEPT !.last_full_info_time = now]
                             ELSE self

\* A send_X that lets the exception out (as `except grpc.RpcError` alone
\* would): the timer thread dies of it, the main thread leaves main().
SendDoneUncaught(t) ==
    /\ Alive
    /\ thr[t].pc = "cwa_done"
    /\ LET dead == thr[t].kind = "hb" /\ thr[t].outcome = "ok" /\ thr[t].answer = "dead"
           c == IF dead THEN [self EXCEPT !.running = FALSE] ELSE self
       IN /\ self' = c
          /\ hist' = IF dead THEN [hist EXCEPT !.aliveFalse = TRUE] ELSE hist
          /\ IF thr[t].outcome = "raised"
             THEN Becomes(t, IF t = Main THEN [Idle EXCEPT !.pc = "crashed"] ELSE Idle)
             ELSE Becomes(t, AfterSend(t, thr[t].kind, c))
    /\ UNCHANGED <<chan, files, now, timers>>

\* send_X, from the end of _call_with_auth to the scheduling decision: a
\* heartbeat answer with alive=false clears running; an exception is caught
\* and logged.
SendDone(t) ==
    /\ Alive
    /\ thr[t].pc = "cwa_done"
    /\ LET dead == thr[t].kind = "hb" /\ thr[t].outcome = "ok" /\ thr[t].answer = "dead"
           c == IF dead THEN [self EXCEPT !.running = FALSE] ELSE self
       IN /\ self' = c
          /\ hist' = IF dead THEN [hist EXCEPT !.aliveFalse = TRUE] ELSE hist
          /\ Becomes(t, AfterSend(t, thr[t].kind, c))
    /\ UNCHANGED <<chan, files, now, timers>>

\* ----------------------------------------------------------- timers
Lowest(S) == CHOOSE x \in S : \A y \in S : x <= y

\* The Timer objects of kind k that thread t can create: not pending, and
\* their callback thread not running, or t itself, which ends as _schedule_X
\* returns.
FreeTimers(t, k) ==
    {s \in Slots : timers[<<k, s>>] = "free" /\ (thr[<<k, s>>].pc = "idle" \/ t = <<k, s>>)}

\* _schedule_X, after its running check: the Timer is created, stored in the
\* attribute of its kind and started.
Create(t) ==
    /\ Alive
    /\ thr[t].pc = "create"
    /\ FreeTimers(t, thr[t].kind) # {}
    /\ LET k == thr[t].kind
           s == Lowest(FreeTimers(t, k))
       IN /\ timers' = [timers EXCEPT ![<<k, s>>] = "pending"]
          /\ self' = [self EXCEPT ![TimerField(k)] = s]
          /\ Becomes(t, AfterSchedule(t, k))
    /\ UNCHANGED <<chan, files, now, hist>>

\* A Timer that repeats: it stays pending when it has fired.
TimerFireRepeats(id) ==
    /\ Alive
    /\ timers[id] = "pending"
    /\ thr[id].pc = "idle"
    /\ UNCHANGED timers
    /\ IF ~self.running
       THEN Becomes(id, Idle) /\ UNCHANGED self
       ELSE SendEnters(id, id[1], now - self.last_full_info_time >= FULL_INFO_SECONDS)
    /\ UNCHANGED <<chan, files, now, hist>>

\* A Timer fires: its thread runs _X_loop, which returns when not running and
\* else enters send_X, a heartbeat with full info if the last one is 300 s old.
TimerFire(id) ==
    /\ Alive
    /\ timers[id] = "pending"
    /\ timers' = [timers EXCEPT ![id] = "free"]
    /\ IF ~self.running
       THEN Becomes(id, Idle) /\ UNCHANGED self
       ELSE SendEnters(id, id[1], now - self.last_full_info_time >= FULL_INFO_SECONDS)
    /\ UNCHANGED <<chan, files, now, hist>>

\* start_heartbeat / start_update_reporting / start_stats_reporting on the
\* main thread: nothing when not running, else the first send of the kind,
\* the heartbeat with full info.
StartPc(k) ==
    CASE k = "hb" -> "start_hb" [] k = "upd" -> "start_upd" [] k = "stats" -> "start_stats"

StartReporting(k) ==
    /\ thr[Main].pc = StartPc(k)
    /\ IF ~self.running
       THEN /\ Becomes(Main, IF k = "hb" THEN [Idle EXCEPT !.pc = "wait"]
                                        ELSE AfterSchedule(Main, k))
            /\ UNCHANGED self
       ELSE SendEnters(Main, k, TRUE)
    /\ UNCHANGED <<chan, files, now, timers, hist>>

\* main() with a loop that connects again when running has become False.
WaitEndsReconnects ==
    /\ thr[Main].pc = "wait"
    /\ ~self.running
    /\ Goto(Main, "connect")
    /\ UNCHANGED <<self, chan, files, now, timers, hist>>

\* main(): `while client.running: time.sleep(1)` ends because running is
\* False, or by KeyboardInterrupt; either way `finally` calls client.stop().
WaitEnds ==
    /\ thr[Main].pc = "wait"
    /\ ~self.running
    /\ Goto(Main, "stop_run")
    /\ UNCHANGED <<self, chan, files, now, timers, hist>>

Interrupt ==
    /\ thr[Main].pc = "wait"
    /\ Goto(Main, "stop_run")
    /\ UNCHANGED <<self, chan, files, now, timers, hist>>

\* ------------------------------------------------------------- stop
\* What stop() reads and writes: the client, the channel, the timers.
Cur == [self |-> self, chan |-> chan, timers |-> timers]

\* self.running = False
stop_running(st) == [st EXCEPT !.self.running = FALSE]

\* self.X_timer.cancel(): a pending timer will not fire; a fired one is left.
stop_cancel(st, k) ==
    [st EXCEPT !.timers[<<k, st.self[TimerField(k)]>>] = "free"]

\* A stop() that cancels the timer and keeps the attribute.
stop_clear_kept(st, k) == st

\* self.X_timer = None
stop_clear(st, k) == [st EXCEPT !.self[TimerField(k)] = 0]

\* if self.X_timer: cancel it and clear the attribute
stop_timer(st, k) ==
    IF st.self[TimerField(k)] # 0 THEN stop_clear(stop_cancel(st, k), k) ELSE st

\* if self.channel: close it and clear the attribute
stop_close(st) ==
    IF st.self.channel THEN [st EXCEPT !.chan = "closed", !.self.channel = FALSE] ELSE st

\* stop(), run without interruption
stop(st) ==
    stop_close(stop_timer(stop_timer(stop_timer(stop_running(st), "hb"), "upd"), "stats"))

\* The cancel and close calls stop() makes from st.
stop_acts(st) ==
    {<<"cancel", k>> : k \in {k2 \in Kinds : st.self[TimerField(k2)] # 0}}
        \cup (IF st.self.channel THEN {<<"close", "channel">>} ELSE {})

\* A step of stop() takes the state to st.
Install(st) == self' = st.self /\ chan' = st.chan /\ timers' = st.timers

StopRunning ==
    /\ thr[Main].pc = "stop_run"
    /\ Install(stop_running(Cur))
    /\ Goto(Main, "stop_timers")
    /\ UNCHANGED <<files, now, hist>>

StopTimers ==
    /\ thr[Main].pc = "stop_timers"
    /\ Install(stop_timer(stop_timer(stop_timer(Cur, "hb"), "upd"), "stats"))
    /\ Goto(Main, "stop_close")
    /\ UNCHANGED <<files, now, hist>>

StopClose ==
    /\ thr[Main].pc = "stop_close"
    /\ Install(stop_close(Cur))
    /\ Goto(Main, "stopped")
    /\ UNCHANGED <<files, now, hist>>

\* main() returns after stop(): the process ends, and its daemon threads
\* with it.
MainReturns ==
    /\ thr[Main].pc = "stopped"
    /\ Goto(Main, "done")
    /\ UNCHANGED <<self, chan, files, now, timers, hist>>

\* ------------------------------------------------------------- next
Next ==
    \/ Tick
    \/ LoadExisting
    \/ Enroll
    \/ EnrollFails
    \/ EnrollSucceeds
    \/ Connect
    \/ \E k \in Kinds : StartReporting(k)
    \/ WaitEnds
    \/ Interrupt
    \/ StopRunning
    \/ StopTimers
    \/ StopClose
    \/ MainReturns
    \/ \E id \in TimerIds : TimerFire(id)
    \/ \E t \in Threads :
         \/ EnsureAccessToken(t)
         \/ RefreshFails(t)
         \/ RefreshSucceeds(t)
         \/ OpAnswer(t)
         \/ SendDone(t)
         \/ Create(t)

Spec == Init /\ [][Next]_vars

\* -------------------------------------------- the credential store
\* The store on its own: records are saved (a save can fail), the files are
\* loaded, and an operator deletes credentials.json.
InstanceIds == {"inst0", "inst1", None}
Servers == {"srv", "srv2"}

\* The records handed to save_enrollment_data: what enroll() builds (no
\* "token" key) and what load_enrollment_data returned (with one).
StoreRecords ==
    {[instanceId |-> i, grpcServerUrl |-> u] : i \in InstanceIds, u \in Servers}
        \cup {[instanceId |-> i, grpcServerUrl |-> u, token |-> k] :
                 i \in InstanceIds, u \in Servers, k \in {None, "tok"}}

StoreInit ==
    /\ self = NewClient
    /\ chan = "none"
    /\ files \in InitialFiles
    /\ now = StartInstant
    /\ timers = [id \in TimerIds |-> "free"]
    /\ thr = [t \in Threads |-> Idle]
    /\ hist = [last |-> "none", saved |-> NoneDict, intact |-> FALSE, deleted |-> FALSE]

\* save_enrollment_data(record)
StoreSave ==
    /\ \E record \in StoreRecords, outcome \in SaveOutcomes :
         /\ files' = save_enrollment_data(files, record, outcome)
         /\ hist' = [last |-> "save", saved |-> record, intact |-> outcome = "ok",
                     deleted |-> hist.deleted /\ outcome = "error_first"]
    /\ UNCHANGED <<self, chan, now, timers, thr>>

\* load_existing_enrollment: self.enrollment_data = load_enrollment_data()
StoreLoad ==
    /\ self' = [self EXCEPT !.enrollment_data = load_enrollment_data(files)]
    /\ hist' = [hist EXCEPT !.last = "load"]
    /\ UNCHANGED <<chan, files, now, timers, thr>>

\* credentials.json is deleted.
StoreDelete ==
    /\ files' = DeleteSecret(files)
    /\ hist' = [hist EXCEPT !.last = "delete", !.intact = FALSE, !.deleted = TRUE]
    /\ UNCHANGED <<self, chan, now, timers, thr>>

\* One of the two files is damaged: its text is no JSON document any more.
StoreCorrupt ==
    /\ \E f \in {"cred", "enr"} :
         /\ files[f] # Absent
         /\ files' = [files EXCEPT ![f] = Garbage]
    /\ hist' = [hist EXCEPT !.last = "corrupt", !.intact = FALSE]
    /\ UNCHANGED <<self, chan, now, timers, thr>>

StoreNext == StoreSave \/ StoreLoad \/ StoreDelete \/ StoreCorrupt

StoreSpec == StoreInit /\ [][StoreNext]_vars

\* ------------------------------------------------- process restart
\* The start of main() over again: the add-on loads or enrolls and connects,
\* and at any moment at which the record it holds is the one on disk it can be
\* stopped and started again, with only the files of /data carried over.
\* hist.prev is the record the process before held when it ended.
RestartInit ==
    /\ self = NewClient
    /\ chan = "none"
    /\ files \in InitialFiles
    /\ now = StartInstant
    /\ timers = [id \in TimerIds |-> "free"]
    /\ thr = [t \in Threads |-> IF t = Main THEN [Idle EXCEPT !.pc = "load"] ELSE Idle]
    /\ hist = [aliveFalse |-> FALSE, prev |-> NoneDict]

\* The process ends after a save that succeeded (by enroll() or by
\* refresh_access_token) or after a load, and main() starts again.
ProcessRestart ==
    /\ thr[Main].pc \in {"connect", "start_hb"}
    /\ self' = NewClient
    /\ chan' = "none"
    /\ thr' = [t \in Threads |-> IF t = Main THEN [Idle EXCEPT !.pc = "load"] ELSE Idle]
    /\ hist' = [hist EXCEPT !.prev = self.enrollment_data]
    /\ UNCHANGED <<files, now, timers>>

\* A caller that calls connect_and_handshake although nothing was loaded and
\* enroll() was not called.
ConnectUnenrolled ==
    /\ thr[Main].pc = "enroll"
    /\ self.enrollment_data = NoneDict
    /\ Goto(Main, "connect")
    /\ UNCHANGED <<self, chan, files, now, timers, hist>>

RestartNext ==
    \/ Tick
    \/ ConnectUnenrolled
    \/ LoadExisting
    \/ Enroll
    \/ EnrollFails
    \/ EnrollSucceeds
    \/ Connect
    \/ RefreshFails(Main)
    \/ RefreshSucceeds(Main)
    \/ ProcessRestart

RestartSpec == RestartInit /\ [][RestartNext]_vars

\* =========================================================== claims
\* The pending timers and the executing threads of a kind.
Pending(k) == {s \in Slots : timers[<<k, s>>] = "pending"}

Executing(k) == {t \in Threads : thr[t].kind = k /\ thr[t].pc # "idle"}

\* Thread t is inside _call_with_auth.
InCall(t) == thr[t].pc \in {"ensure", "refresh_wait", "rpc_wait"} /\ thr[t].ctx # "connect"

\* The condition the specification gives for a refresh: no cached access
\* token, or the expiry at most 30 seconds away.
MustRefresh(token, expiresAt, t) == ~Truthy(token) \/ t >= expiresAt - 30

\* The decision of _ensure_access_token agrees with the condition on every
\* combination of token, expiry and time around the boundary (expiry 3600:
\* refresh at 3570 and 3571, none at 3569).
DecisionAgrees ==
    \A token \in {None, "", "A0"}, e \in {0, 31, 3600}, t \in {0, 1, 2, 3569, 3570, 3571} :
        ensure_refreshes([access_token |-> token, access_token_expires_at |-> e], t)
            <=> MustRefresh(token, e, t)

\* C1: _ensure_access_token starts a refresh-token exchange if and only if no
\* access token is cached or now >= accessTokenExpiresAt - 30: whenever a
\* thread leaves _ensure_access_token (in _call_with_auth or in
\* connect_and_handshake) it is waiting for a RefreshToken answer exactly when
\* that condition holds of the tokens and the clock it read; and, looked at
\* as the client connects, the decision agrees with the condition on every
\* combination of token, expiry and time.
C1_RefreshIffExpired ==
    [][/\ \A t \in Threads :
            (thr[t].pc = "ensure" /\ thr'[t] # thr[t]) =>
                ((thr'[t].pc = "refresh_wait")
                    <=> MustRefresh(self.access_token, self.access_token_expires_at, now))
       /\ (thr[Main].pc = "connect" /\ thr'[Main].pc \in {"refresh_wait", "start_hb"}) =>
            /\ (thr'[Main].pc = "refresh_wait")
                    <=> MustRefresh(self'.access_token, self'.access_token_expires_at, now)
            /\ DecisionAgrees]_vars

\* C1 witness: at the boundary (now = expiry - 30, a token cached) a thread
\* has left _ensure_access_token for the refresh.
C1_Witness ==
    \E t \in Threads :
        /\ thr[t].pc = "refresh_wait" /\ thr[t].ctx = "ensure"
        /\ Truthy(self.access_token)
        /\ self.access_token_expires_at = now + 30 /\ now = 1001

\* C2: one call of _call_with_auth refreshes-and-retries at most once and
\* invokes the operation at most twice; when every answer it got was
\* UNAUTHENTICATED it has made exactly one refresh attempt and ends by raising
\* the error to its caller.
C2_OneRefreshAndRetry ==
    [][\A t \in Threads :
         /\ thr'[t].retries <= 1 /\ thr'[t].ops <= 2 /\ thr'[t].refreshes <= 2
         /\ (InCall(t) /\ thr'[t].pc = "cwa_done" /\ thr'[t].allUnauth) =>
                /\ thr[t].refreshes = 1
                /\ thr[t].ops <= 1
                /\ thr'[t].outcome = "raised"]_vars

\* C2 witness: a call has ended by raising after the operation and the one
\* refresh it tried were both answered UNAUTHENTICATED.
C2_Witness ==
    \E t \in Threads :
        /\ thr[t].pc = "cwa_done" /\ thr[t].outcome = "raised"
        /\ thr[t].allUnauth /\ thr[t].retries = 1

\* C3: at most one task at a time is inside _call_with_auth /
\* _ensure_access_token (so two refresh-token exchanges are never in flight
\* together).
C3_CallIsCriticalSection == Cardinality({t \in Threads : InCall(t)}) <= 1

\* C4: once a heartbeat answer with alive=false has been processed, no task
\* starts a new send and no task creates a new timer.
C4_NothingAfterNotAlive ==
    [][hist.aliveFalse =>
         /\ \A id \in TimerIds : ~(timers[id] = "free" /\ timers'[id] = "pending")
         /\ \A t \in Threads : ~(thr[t].pc # "ensure" /\ thr'[t].pc = "ensure")]_vars

\* C5: a kind never overlaps with itself: of each kind there is at any time
\* at most one thing, a pending timer or a thread executing the kind's send
\* and rescheduling; so the next timer exists only once the send is over.
C5_KindNeverOverlaps ==
    \A k \in Kinds : Cardinality(Pending(k)) + Cardinality(Executing(k)) <= 1

\* C5 witness: a timer thread is in its send, waiting for the server, while
\* another kind's timer is pending.
C5_Witness ==
    \E id \in TimerIds :
        /\ thr[id].pc = "rpc_wait"
        /\ \E k \in Kinds \ {id[1]} : Pending(k) # {}

\* The Timer attributes of the client.
Handles(c) == [k \in Kinds |-> c[TimerField(k)]]

\* C6: a send that failed (remote call error, no token, telemetry provider
\* error) is caught in its own task: the step that handles the failure leaves
\* running, every timer and every Timer attribute as they were, and, the
\* session still running, takes the task on to schedule its next firing.
C6_FailureSkipsOneCycle ==
    [][\A t \in Threads :
         (thr[t].pc = "cwa_done" /\ thr[t].outcome = "raised" /\ thr'[t] # thr[t]) =>
            /\ self'.running = self.running
            /\ timers' = timers
            /\ Handles(self') = Handles(self)
            /\ self.running => (thr'[t].pc = "create" /\ thr'[t].kind = thr[t].kind)
            /\ thr'[t].pc \notin {"crashed", "exit"}]_vars

\* C6 witness: a timer thread's send has failed while the session is running
\* and the other two kinds have their timers pending.
C6_Witness ==
    \E id \in TimerIds :
        /\ thr[id].pc = "cwa_done" /\ thr[id].outcome = "raised"
        /\ self.running
        /\ \A k \in Kinds \ {id[1]} : Pending(k) # {}

\* C7: while one kind's send waits for the server and the session is
\* running, each of the other two kinds can have its own send: it has a timer
\* pending or a thread executing it.
C7_OtherKindsNotBlocked ==
    \A t \in Threads :
        (thr[t].pc = "rpc_wait" /\ self.running) =>
            \A k \in Kinds \ {thr[t].kind} : Pending(k) # {} \/ Executing(k) # {}

\* C8: stop() is idempotent: from every reachable state, running it twice
\* gives the state that running it once gives (running False, the three Timer
\* attributes None, the channel closed and its attribute None), and the
\* second run makes no cancel and no close call.
C8_StopIdempotent ==
    LET once == stop(Cur)
    IN /\ stop(once) = once
       /\ stop_acts(once) = {}
       /\ ~once.self.running
       /\ \A k \in Kinds : once.self[TimerField(k)] = 0
       /\ ~once.self.channel
       /\ once.chan # "open"
       /\ \A k \in Kinds :
            self[TimerField(k)] # 0 => once.timers[<<k, self[TimerField(k)]>>] = "free"

\* C8 witness: stop() has run on a connected, reporting client, and a second
\* stop() would find nothing to do.
C8_Witness ==
    /\ thr[Main].pc = "stopped"
    /\ chan = "closed"
    /\ ~self.running
    /\ stop_acts(Cur) = {}
    /\ Cur = stop(Cur)

\* C9: once stop() has returned no timer of any kind is pending.
C9_NoTimerAfterStop ==
    thr[Main].pc = "stopped" => \A id \in TimerIds : timers[id] # "pending"

\* C10: for every record and whatever the files held before, a successful
\* save followed by a load gives a record with the saved instanceId and
\* grpcServerUrl, and the same load after credentials.json was deleted gives
\* None; and so it is in every run of the store: a load after an intact save
\* returns the saved identity, a load after the deletion returns None.
C10_StoreRoundTrip ==
    /\ \A record \in StoreRecords :
         LET fs == save_enrollment_data(files, record, "ok")
             got == load_enrollment_data(fs)
         IN /\ got # NoneDict
            /\ Get(got, "instanceId") = Get(record, "instanceId")
            /\ Get(got, "grpcServerUrl") = Get(record, "grpcServerUrl")
            /\ load_enrollment_data(DeleteSecret(fs)) = NoneDict
    /\ (hist.last = "load" /\ hist.intact) =>
         /\ self.enrollment_data # NoneDict
         /\ Get(self.enrollment_data, "instanceId") = Get(hist.saved, "instanceId")
         /\ Get(self.enrollment_data, "grpcServerUrl") = Get(hist.saved, "grpcServerUrl")
    /\ (hist.last = "load" /\ hist.deleted) => self.enrollment_data = NoneDict

\* C10 witness: a record naming another server than the files did was saved
\* and then loaded.
C10_Witness ==
    /\ hist.last = "load" /\ hist.intact
    /\ Get(hist.saved, "grpcServerUrl") = "srv2"
    /\ Get(self.enrollment_data, "grpcServerUrl") = "srv2"

\* C11: load_enrollment_data returns None, and never an error, whenever one
\* of the two files is missing or does not parse; it returns a record only
\* when both files exist and parse.  So of the files as they are in every
\* state, and so of what load_existing_enrollment stored after a load.
C11_LoadAbsentNotError ==
    LET got == load_enrollment_data(files)
        broken == files.cred.kind # "json" \/ files.enr.kind # "json"
    IN /\ got # Exception
       /\ broken => got = NoneDict
       /\ hist.last = "load" =>
            /\ self.enrollment_data = got
            /\ self.enrollment_data # Exception
            /\ self.enrollment_data # NoneDict =>
                   (files.cred.kind = "json" /\ files.enr.kind = "json")

\* C11 witness: a load found credentials.json in place and enrollment.json
\* damaged, and returned None.
C11_Witness ==
    /\ hist.last = "load"
    /\ files.cred.kind = "json" /\ files.enr.kind = "garbage"
    /\ self.enrollment_data = NoneDict

\* C12: the record is loaded unchanged at startup: when a process that held
\* a saved record with a refresh token has ended and main() has started
\* again, load_existing_enrollment gives a record with the same accessToken,
\* refreshToken and accessTokenExpiresAt, so that connect_and_handshake finds
\* a refresh token, and the add-on does not enroll again.
C12_RestartKeepsTokens ==
    (hist.prev # NoneDict /\ Truthy(Get(hist.prev, "refreshToken"))) =>
        /\ thr[Main].pc \notin {"enroll", "enroll_wait"}
        /\ thr[Main].pc = "connect" =>
              /\ Get(self.enrollment_data, "accessToken") = Get(hist.prev, "accessToken")
              /\ Get(self.enrollment_data, "refreshToken") = Get(hist.prev, "refreshToken")
              /\ GetInt(self.enrollment_data, "accessTokenExpiresAt")
                    = GetInt(hist.prev, "accessTokenExpiresAt")

\* The token attributes of the client.
Tokens(c) == <<c.access_token, c.refresh_token, c.access_token_expires_at>>

\* Thread t's RefreshToken call ends in this step without success: it was
\* waiting for the answer and now has failed (in connect_and_handshake, which
\* returns False, or in _call_with_auth, which raises), and not by an error
\* of the save that follows a success.
RefreshFailed(t) ==
    /\ thr[t].pc = "refresh_wait"
    /\ thr'[t].pc \in {"exit", "cwa_done"}
    /\ thr'[t].answer # "save_failed"

\* C13: a refresh that fails (success=false, or the call raising a remote
\* error) returns failure and leaves the access token, the refresh token, the
\* expiry, the record in memory and the files as they were.
C13_FailedRefreshChangesNothing ==
    [][\A t \in Threads :
         RefreshFailed(t) =>
            /\ Tokens(self') = Tokens(self)
            /\ self'.enrollment_data = self.enrollment_data
            /\ files' = files
            /\ self'.running = self.running
            /\ thr'[t].pc = "cwa_done" => thr'[t].outcome = "raised"]_vars

\* C13 witness: a call of _call_with_auth whose first answer was that of the
\* RefreshToken call, UNAUTHENTICATED, has raised, and the client still holds
\* the tokens it enrolled with.
C13_Witness ==
    \E t \in Threads :
        /\ thr[t].pc = "cwa_done" /\ thr[t].outcome = "raised"
        /\ thr[t].allUnauth /\ thr[t].retries = 0
        /\ Tokens(self) = <<"A0", "R0", StartInstant + 31>>

\* The client holds an access token that a RefreshToken answer brought.
HoldsRefreshedToken == \E r \in RefreshResponses(now) : self.access_token = r.access_token

\* C14: after a successful refresh the updated record is persisted: whenever
\* the client holds a refreshed token and no RefreshToken call is in progress,
\* the record in the files has the accessToken, refreshToken and
\* accessTokenExpiresAt that the client has in memory.
C14_PersistedEqualsMemory ==
    (HoldsRefreshedToken /\ \A t \in Threads : thr[t].pc # "refresh_wait") =>
        LET persisted == load_enrollment_data(files)
        IN /\ persisted # NoneDict
           /\ Get(persisted, "accessToken") = self.access_token
           /\ Get(persisted, "refreshToken") = self.refresh_token
           /\ GetInt(persisted, "accessTokenExpiresAt") = self.access_token_expires_at

\* C15: when, inside _call_with_auth, the RefreshToken call succeeds and the
\* save of the refreshed record fails, the new access token is still used for
\* the call at hand (the call is made), and the failure of the save is kept
\* for the caller.
C15_SaveFailureStillCalls ==
    [][\A t \in Threads :
         (InCall(t) /\ thr[t].pc = "refresh_wait" /\ thr'[t].answer = "save_failed") =>
            thr'[t].pc = "rpc_wait"]_vars

\* C16: connect_and_handshake sets running only with a record loaded, a
\* non-empty refresh token and a successful _ensure_access_token; with no
\* record, with an empty refresh token on the channel it built, or with a
\* failed refresh it returns False and running stays false.
ConnectLeaves == thr[Main].pc = "connect" /\ thr'[Main].pc \notin {"connect", "load"}

C16_ConnectSucceedsOnlyWithTokens ==
    [][/\ (self'.running /\ ~self.running) =>
            /\ thr[Main].pc = "connect"
                 \/ (thr[Main].pc = "refresh_wait" /\ thr[Main].ctx = "connect")
            /\ thr'[Main].pc = "start_hb"
            /\ self'.enrollment_data # NoneDict
            /\ Truthy(self'.refresh_token)
            /\ Truthy(self'.access_token)
       /\ (ConnectLeaves /\ self.enrollment_data = NoneDict) =>
            (thr'[Main].pc = "exit" /\ ~self'.running)
       /\ (ConnectLeaves /\ self.enrollment_data # NoneDict /\ chan' = "open"
             /\ ~Truthy(Get(self.enrollment_data, "refreshToken"))) =>
            (thr'[Main].pc = "exit" /\ ~self'.running)
       /\ (thr[Main].pc = "refresh_wait" /\ thr[Main].ctx = "connect"
             /\ thr'[Main].pc # "refresh_wait" /\ self'.access_token = self.access_token) =>
            (thr'[Main].pc = "exit" /\ ~self'.running)]_vars

\* connect_and_handshake has refused a record whose access token is valid and
\* whose refresh token is empty.
C16_Witness ==
    /\ thr[Main].pc = "exit"
    /\ chan = "open"
    /\ ~self.running
    /\ self.access_token = "A0"
    /\ ~token_expired(self, now)
    /\ ~Truthy(self.refresh_token)

\* main() is before the end of connect_and_handshake: loading, enrolling or
\* connecting (the tokens of the record being refreshed).
BeforeRunning ==
    \/ thr[Main].pc \in {"load", "enroll", "enroll_wait", "connect"}
    \/ thr[Main].pc = "refresh_wait" /\ thr[Main].ctx = "connect"

\* C17: running becomes true only at the successful end of
\* connect_and_handshake; main() never goes back to loading, enrolling or
\* connecting; and once main() is past connecting, running that is false
\* (by stop() or by alive=false) stays false and a closed channel stays closed.
C17_SessionOnlyForward ==
    [][/\ (self'.running /\ ~self.running) =>
            (BeforeRunning /\ thr'[Main].pc = "start_hb")
       /\ ~BeforeRunning => ~BeforeRunning'
       /\ (~BeforeRunning /\ ~self.running) => ~self'.running
       /\ chan = "closed" => chan' = "closed"]_vars

\* C17 witness: the server answered alive=false, main() has run stop() to its
\* end, and running is false.
C17_Witness ==
    /\ hist.aliveFalse
    /\ thr[Main].pc = "stopped"
    /\ chan = "closed"
    /\ ~self.running

\* Thread t is in _call_with_auth for a Heartbeat, ReportUpdates or
\* ReportStats call: before it, refreshing for it, or waiting for its answer.
Attempting(t) ==
    \/ thr[t].pc \in {"ensure", "rpc_wait"}
    \/ thr[t].pc = "refresh_wait" /\ thr[t].ctx # "connect"

\* C18: whenever an authenticated call is attempted, and whenever the session
\* is running, the refresh token in memory is non-empty, whatever refreshes
\* happened before (answers without a new refresh token included).
C18_RefreshTokenNeverEmpty ==
    (self.running \/ \E t \in Threads : Attempting(t)) => Truthy(self.refresh_token)

\* C18 witness: a call is in flight after a refresh whose answer carried a
\* new access token and no refresh token; the enrolled one is still held.
C18_Witness ==
    \E t \in Threads :
        /\ thr[t].pc = "rpc_wait"
        /\ self.running
        /\ self.access_token = "A1"
        /\ self.refresh_token = "R0"

\* Thread t builds a heartbeat request in this step and goes on to send it.
HeartbeatBuilt(t) ==
    /\ thr[t].pc # "ensure"
    /\ thr'[t].pc = "ensure"
    /\ thr'[t].kind = "hb"

\* C19: a heartbeat carries the full system info and sets last_full_info_time
\* to now if and only if FULL_INFO_SECONDS have passed since
\* last_full_info_time (0 at first, so the first one is full); otherwise it
\* carries the timestamp only and leaves last_full_info_time as it was.
C19_FullInfoIffDue ==
    [][\A t \in Threads :
         HeartbeatBuilt(t) =>
            IF now - self.last_full_info_time >= FULL_INFO_SECONDS
            THEN /\ thr'[t].payload = "timestamp+system_info"
                 /\ self'.last_full_info_time = now
            ELSE /\ thr'[t].payload = "timestamp"
                 /\ self'.last_full_info_time = self.last_full_info_time]_vars

\* ------------------------------------------------------ _create_channel
\* Server addresses are strings over a small alphabet: a host letter, the
\* colon, a digit and the slash, up to MaxUrlLen characters.
MaxUrlLen == 3
UrlChars == {"h", ":", "5", "/"}
Digits == {"5"}
Urls == UNION {[1..n -> UrlChars] : n \in 1..MaxUrlLen}

\* str.rstrip("/") of __init__
RECURSIVE rstrip_slash(_)
rstrip_slash(u) ==
    IF Len(u) > 0 /\ u[Len(u)] = "/" THEN rstrip_slash(SubSeq(u, 1, Len(u) - 1)) ELSE u

\* The position of the last colon of u, 0 if it has none.
LastColon(u) ==
    LET at == {i \in 1..Len(u) : u[i] = ":"}
    IN IF at = {} THEN 0 ELSE CHOOSE i \in at : \A j \in at : j <= i

\* int(port_str) returns a number: port_str is a non-empty string of digits.
IsInt(p) == Len(p) > 0 /\ \A i \in 1..Len(p) : p[i] \in Digits

\* `host, port_str = server_url.rsplit(":", 1); port = int(port_str)`: the
\* host and port string, or the ValueError of the unpacking (no colon) or of
\* int().
ParseAddress(u) ==
    LET i == LastColon(u)
    IN IF i = 0 THEN Exception
       ELSE IF ~IsInt(SubSeq(u, i + 1, Len(u))) THEN Exception
       ELSE [host |-> SubSeq(u, 1, i - 1), port_str |-> SubSeq(u, i + 1, Len(u))]

\* The PEM text built from the DER bytes of a certificate.
Pem(der) ==
    [begin |-> "-----BEGIN CERTIFICATE-----", base64 |-> der,
     end |-> "-----END CERTIFICATE-----"]

\* root_certificates=None: grpc takes the default roots.
DefaultRoots == [default |-> TRUE]

\* What open(self.tls_ca_cert).read() gives: the bytes of the file, or the
\* error it raises.
Unreadable == [unreadable |-> TRUE]
CaFiles == {Unreadable, Pem("ca")}

\* What the unverified TLS connection to the server ends with: no connection,
\* a failed handshake, a session in which getpeercert gives nothing, or the
\* certificate the server presented.
ProbeOutcomes ==
    {[result |-> r, der |-> None] : r \in {"refused", "handshake_failed", "no_cert"}}
    \cup {[result |-> "cert", der |-> d] : d \in {"der1", "der2"}}

\* The channels grpc builds, and the exception _create_channel lets out.
insecure_channel(target) == [kind |-> "insecure", target |-> target]
secure_channel(target, roots, override) ==
    [kind |-> "secure", target |-> target, roots |-> roots, override |-> override]
ChannelError(why) == [kind |-> "raised", why |-> why]
NoChannel == [kind |-> "none"]

\* The root certificates after the trust-on-first-use block: the address is
\* parsed outside the try, the connection and handshake inside it.
ProbedRoots(url, probe) ==
    IF ParseAddress(url) = Exception THEN ChannelError("ValueError")
    ELSE IF probe.result \in {"refused", "handshake_failed"} THEN insecure_channel(url)
    ELSE [kind |-> "roots", roots |-> IF probe.result = "cert" THEN Pem(probe.der) ELSE DefaultRoots]

\* _create_channel going on with no roots of its own when the CA file cannot
\* be read.
create_channel_ignores_ca(url, tls_ca_cert, tls_skip_verify, ca_file, probe) ==
    LET root0 == IF Truthy(tls_ca_cert) /\ ca_file # Unreadable THEN ca_file ELSE DefaultRoots
    IN IF ~tls_skip_verify THEN secure_channel(url, root0, FALSE)
       ELSE IF Truthy(tls_ca_cert) THEN secure_channel(url, root0, TRUE)
       ELSE LET p == ProbedRoots(url, probe)
            IN IF p.kind = "roots" THEN secure_channel(url, p.roots, TRUE) ELSE p

\* _create_channel(server_url) of a client with tls_ca_cert and
\* tls_skip_verify; ca_file is what reading the CA file gives.
create_channel(url, tls_ca_cert, tls_skip_verify, ca_file, probe) ==
    IF Truthy(tls_ca_cert) /\ ca_file = Unreadable THEN ChannelError("ca_read")
    ELSE LET root0 == IF Truthy(tls_ca_cert) THEN ca_file ELSE DefaultRoots
         IN IF ~tls_skip_verify THEN secure_channel(url, root0, FALSE)
            ELSE IF Truthy(tls_ca_cert) THEN secure_channel(url, root0, TRUE)
            ELSE LET p == ProbedRoots(url, probe)
                 IN IF p.kind = "roots" THEN secure_channel(url, p.roots, TRUE) ELSE p

\* main() with a client constructed with a server address and a TLS
\* configuration, in an environment: the CA file and what the server does on
\* the probe.  /data is empty or left by an earlier run.  hist holds the
\* configuration, the environment and what _create_channel gave last.
ChannelInit ==
    /\ self = NewClient
    /\ chan = "none"
    /\ files \in {[cred |-> Absent, enr |-> Absent], EarlierRun}
    /\ now = StartInstant
    /\ timers = [id \in TimerIds |-> "free"]
    /\ thr = [t \in Threads |-> IF t = Main THEN [Idle EXCEPT !.pc = "load"] ELSE Idle]
    /\ \E u \in Urls, skip \in BOOLEAN, ca \in {None, "ca.pem"},
          content \in CaFiles, probe \in ProbeOutcomes :
          /\ ca = None => content = Unreadable
          /\ hist = [server_url |-> rstrip_slash(u), tls_skip_verify |-> skip,
                     tls_ca_cert |-> ca, ca_file |-> content, probe |-> probe,
                     built |-> NoChannel]

\* self._create_channel(...) of this client in this environment.  The
\* address of the record is the server_url enroll() stored in it.
CreateChannel ==
    create_channel(hist.server_url, hist.tls_ca_cert, hist.tls_skip_verify,
                   hist.ca_file, hist.probe)

\* enroll(), to the Enroll call, with the channel _create_channel gives: its
\* exception is caught by `except Exception`, enroll() returns False.
EnrollCreates ==
    /\ thr[Main].pc = "enroll"
    /\ hist' = [hist EXCEPT !.built = CreateChannel]
    /\ Goto(Main, IF CreateChannel.kind = "raised" THEN "exit" ELSE "enroll_wait")
    /\ UNCHANGED <<self, chan, files, now, timers>>

\* connect_and_handshake with the channel _create_channel gives.
ConnectCreates ==
    /\ thr[Main].pc = "connect"
    /\ IF self.enrollment_data = NoneDict \/ DOMAIN self.enrollment_data = {}
       THEN Goto(Main, "exit") /\ UNCHANGED <<self, chan, hist>>
       ELSE /\ hist' = [hist EXCEPT !.built = CreateChannel]
            /\ ConnectOn(CreateChannel.kind # "raised")
    /\ UNCHANGED <<files, now, timers>>

ChannelNext ==
    \/ LoadExisting
    \/ EnrollCreates
    \/ EnrollFails
    \/ EnrollSucceeds
    \/ ConnectCreates
    \/ RefreshFails(Main)
    \/ RefreshSucceeds(Main)

ChannelSpec == ChannelInit /\ [][ChannelNext]_vars

\* C20: with tls_skip_verify set and no CA file, _create_channel returns a
\* TLS channel whose only trust root is the certificate the server presented
\* when the probe got one, and an unencrypted channel, never an exception, when
\* the probe failed: the server refused or failed the handshake, or the
\* address is malformed.
C20_TrustOnFirstUse ==
    (hist.built # NoChannel /\ hist.tls_skip_verify /\ ~Truthy(hist.tls_ca_cert)) =>
        IF ParseAddress(hist.server_url) # Exception /\ hist.probe.result = "cert"
        THEN hist.built = secure_channel(hist.server_url, Pem(hist.probe.der), TRUE)
        ELSE IF hist.probe.result = "no_cert" /\ ParseAddress(hist.server_url) # Exception
        THEN hist.built.kind # "raised"
        ELSE hist.built = insecure_channel(hist.server_url)

\* The CA file is configured and cannot be read.
CaUnreadable == Truthy(hist.tls_ca_cert) /\ hist.ca_file = Unreadable

\* C21: with a CA file configured that cannot be read, _create_channel gives
\* no channel but the error, with and without tls_skip_verify; the enroll()
\* that called it returns False with no record held or written, the
\* connect_and_handshake that called it ends with running false.
C21_UnreadableCaIsFatal ==
    (CaUnreadable /\ hist.built # NoChannel) =>
        /\ hist.built = ChannelError("ca_read")
        /\ ~self.running
        /\ chan = "none"
        /\ thr[Main].pc \in {"exit", "crashed"}
        /\ thr[Main].pc = "exit" =>
              (self.enrollment_data = NoneDict /\ files = [cred |-> Absent, enr |-> Absent])

\* C21 witness: connect_and_handshake, with tls_skip_verify set and a record
\* loaded, has ended by the error of reading the CA file.
C21_Witness ==
    /\ CaUnreadable
    /\ hist.tls_skip_verify
    /\ hist.built = ChannelError("ca_read")
    /\ thr[Main].pc = "crashed"
    /\ self.enrollment_data # NoneDict

\* enroll() returns in this step.
EnrollReturns ==
    /\ thr[Main].pc \in {"enroll", "enroll_wait"}
    /\ thr'[Main].pc \in {"connect", "exit"}

\* C22: enroll() returns True, main() going on to connect, only with the
\* record of a successful answer held and persisted; when it returns False
\* with the record as it was (the channel or the call failed, or the server
\* refused), nothing was written, and the record is changed on a False return
\* only by an answer of success whose save failed.
C22_EnrollOnlyOnSuccess ==
    [][EnrollReturns =>
         IF thr'[Main].pc = "connect"
         THEN /\ thr[Main].pc = "enroll_wait"
              /\ Get(self'.enrollment_data, "instanceId") = "inst1"
              /\ load_enrollment_data(files') # NoneDict
              /\ Get(load_enrollment_data(files'), "instanceId") = "inst1"
         ELSE /\ ~self'.running
              /\ self'.enrollment_data = self.enrollment_data => files' = files
              /\ self'.enrollment_data # self.enrollment_data =>
                    /\ thr[Main].pc = "enroll_wait"
                    /\ load_enrollment_data(files') = NoneDict]_vars

\* C22 witness: the Enroll call was made on a channel that was built and
\* failed or was refused; main() exits with no record and nothing in /data.
C22_Witness ==
    /\ thr[Main].pc = "exit"
    /\ hist.built.kind \in {"secure", "insecure"}
    /\ self.enrollment_data = NoneDict
    /\ files = [cred |-> Absent, enr |-> Absent]

\* None of the three reports has been started: no Timer exists, no timer
\* thread runs, and the client holds no timer.
NoTaskStarted ==
    /\ \A id \in TimerIds : timers[id] = "free" /\ thr[id] = Idle
    /\ \A k \in Kinds : self[TimerField(k)] = 0

\* C23: main() is in enroll() only when load_existing_enrollment found no
\* record; it is in connect_and_handshake only with a record, loaded or
\* enrolled; and up to the end of connecting, and when it exits because
\* enrolling or connecting failed, no report has been started and running is
\* false.
C23_StartupOrder ==
    /\ thr[Main].pc \in {"enroll", "enroll_wait"} =>
          (self.enrollment_data = NoneDict /\ load_enrollment_data(files) = NoneDict)
    /\ thr[Main].pc = "connect" => self.enrollment_data # NoneDict
    /\ (BeforeRunning \/ thr[Main].pc \in {"exit", "crashed"}) =>
          (NoTaskStarted /\ ~self.running)

\* C23 witness: a record was loaded or enrolled, connect_and_handshake built
\* the channel and returned False, and main() has exited.
C23_Witness ==
    /\ thr[Main].pc = "exit"
    /\ self.enrollment_data # NoneDict
    /\ chan = "open"
    /\ NoTaskStarted

\* ------------------------------------------ _call_with_auth, raced
\* Two threads of a running session in _call_with_auth at the same time, with
\* _call_with_auth and refresh_access_token taken statement by statement;
\* nothing in the client keeps one out while the other is in it.  thr[t] holds
\* the thread's position, how it came to refresh (ctx), the number of times it
\* invoked the operation, the answer to its RefreshToken call, the token in
\* the metadata it built and the exception it handles or ends with;
\* hist.serial is the token triple that results from applying the answers one
\* after the other, in the order in which the refreshes completed.
Racers == {<<"hb", 1>>, <<"upd", 1>>}

RaceIdle ==
    [pc |-> "idle", ctx |-> "none", ops |-> 0, response |-> NoneDict,
     metadata |-> None, error |-> "none"]

\* The answers of the server to the RefreshToken call of racer t: each call
\* is given tokens of its own, with or without a new refresh token.
RaceResponses(t, time) ==
    LET n == IF t[1] = "hb" THEN "1" ELSE "2"
        ttl == IF t[1] = "hb" THEN 31 ELSE 32
    IN {[success |-> TRUE, access_token |-> IF n = "1" THEN "A1" ELSE "A2",
         refresh_token |-> rt, access_token_expires_at |-> time + ttl] :
           rt \in {"", IF n = "1" THEN "R1" ELSE "R2"}}

\* A session that runs on the tokens of its enrollment.
RaceClient ==
    LET data == [instanceId |-> "inst1", accessToken |-> "A0", refreshToken |-> "R0",
                 accessTokenExpiresAt |-> StartInstant + 31, grpcServerUrl |-> "srv"]
    IN [NewClient EXCEPT !.enrollment_data = data, !.channel = TRUE, !.stub = TRUE,
                         !.access_token = "A0", !.refresh_token = "R0",
                         !.access_token_expires_at = StartInstant + 31,
                         !.running = TRUE]

RaceInit ==
    /\ self = RaceClient
    /\ chan = "open"
    /\ files = save_enrollment_data([cred |-> Absent, enr |-> Absent],
                                    RaceClient.enrollment_data, "ok")
    /\ now = StartInstant
    /\ timers = [id \in TimerIds |-> "free"]
    /\ thr = [t \in Threads |-> RaceIdle]
    /\ hist = [serial |-> Tokens(RaceClient), completed |-> 0]

RaceGoto(t, pc) == thr' = [thr EXCEPT ![t].pc = pc]

\* _call_with_auth ends by raising the exception what.
RaceRaise(t, what) == thr' = [thr EXCEPT ![t].pc = "raised", ![t].error = what]

\* _call_with_auth: _ensure_access_token, to the RefreshToken call or past it;
\* a refresh that cannot be tried makes it raise RuntimeError.
RaceEnsure(t) ==
    /\ thr[t].pc = "idle"
    /\ IF ~ensure_refreshes(self, now) THEN RaceGoto(t, "metadata")
       ELSE IF refresh_possible(self)
       THEN thr' = [thr EXCEPT ![t].pc = "refresh_wait", ![t].ctx = "ensure"]
       ELSE RaceRaise(t, "RuntimeError")
    /\ UNCHANGED <<self, chan, files, now, timers, hist>>

\* A _call_with_auth that goes on to the call when its refresh failed.
RaceRefreshFailsCallsAnyway(t) ==
    /\ thr[t].pc = "refresh_wait"
    /\ RaceGoto(t, "metadata")
    /\ UNCHANGED <<self, chan, files, now, timers, hist>>

\* The RefreshToken call fails or is refused: refresh_access_token returns
\* False.  At the start of _call_with_auth that raises RuntimeError; in the
\* handler of the first attempt's error, `raise` raises that error again.
RaceRefreshFails(t) ==
    /\ thr[t].pc = "refresh_wait"
    /\ RaceRaise(t, IF thr[t].ctx = "retry" THEN thr[t].error ELSE "RuntimeError")
    /\ UNCHANGED <<self, chan, files, now, timers, hist>>

\* The RefreshToken call is answered with success.
RaceAnswer(t) ==
    /\ thr[t].pc = "refresh_wait"
    /\ \E response \in RaceResponses(t, now) :
         thr' = [thr EXCEPT ![t].pc = "set_access", ![t].response = response]
    /\ UNCHANGED <<self, chan, files, now, timers, hist>>

\* self.access_token = response.access_token
RaceSetAccess(t) ==
    /\ thr[t].pc = "set_access"
    /\ self' = [self EXCEPT !.access_token = thr[t].response.access_token]
    /\ RaceGoto(t, "set_refresh")
    /\ UNCHANGED <<chan, files, now, timers, hist>>

\* if response.refresh_token: self.refresh_token = response.refresh_token
RaceSetRefresh(t) ==
    /\ thr[t].pc = "set_refresh"
    /\ self' = [self EXCEPT !.refresh_token =
                   IF thr[t].response.refresh_token # ""
                   THEN thr[t].response.refresh_token ELSE @]
    /\ RaceGoto(t, "set_expiry")
    /\ UNCHANGED <<chan, files, now, timers, hist>>

\* self.access_token_expires_at = response.access_token_expires_at
RaceSetExpiry(t) ==
    /\ thr[t].pc = "set_expiry"
    /\ self' = [self EXCEPT !.access_token_expires_at =
                   thr[t].response.access_token_expires_at]
    /\ RaceGoto(t, "persist")
    /\ UNCHANGED <<chan, files, now, timers, hist>>

\* self.enrollment_data.update({...}) with the attributes as they are now,
\* save_enrollment_data, return True; _call_with_auth goes on to the call.
\* The OSError of the save is not caught.
RacePersist(t) ==
    /\ thr[t].pc = "persist"
    /\ \E outcome \in SaveOutcomes :
         LET c == [self EXCEPT !.enrollment_data = refreshed_record(self)]
         IN /\ self' = c
            /\ files' = save_enrollment_data(files, c.enrollment_data, outcome)
            /\ IF outcome = "ok" THEN RaceGoto(t, "metadata") ELSE RaceRaise(t, "OSError")
    /\ hist' = [serial |-> Tokens(refresh_applied(
                               [access_token |-> hist.serial[1],
                                refresh_token |-> hist.serial[2],
                                access_token_expires_at |-> hist.serial[3]],
                               thr[t].response)),
                completed |-> hist.completed + 1]
    /\ UNCHANGED <<chan, now, timers>>

\* metadata = self._auth_metadata(); rpc(request, timeout, metadata): the
\* call is in flight with the token the client holds now.
RaceInvoke(t) ==
    /\ thr[t].pc = "metadata"
    /\ thr' = [thr EXCEPT ![t].pc = "rpc_wait", ![t].ops = @ + 1,
                          ![t].metadata = self.access_token]
    /\ UNCHANGED <<self, chan, files, now, timers, hist>>

\* A _call_with_auth that refreshes and calls again after any RpcError.
RaceOpAnswerRefreshesOnAnyError(t) ==
    /\ thr[t].pc = "rpc_wait"
    /\ \E a \in {"ok", "unauth", "error"} :
         IF a = "ok" THEN RaceGoto(t, "returned")
         ELSE IF thr[t].ops = 1 /\ refresh_possible(self)
         THEN thr' = [thr EXCEPT ![t].pc = "refresh_wait", ![t].ctx = "retry",
                                ![t].error = IF a = "unauth" THEN "rpc:unauth"
                                             ELSE "rpc:error"]
         ELSE RaceRaise(t, IF a = "unauth" THEN "rpc:unauth" ELSE "rpc:error")
    /\ UNCHANGED <<self, chan, files, now, timers, hist>>

\* _call_with_auth, from the answer of the call: it returns the answer;
\* UNAUTHENTICATED to the first attempt refreshes; every other RpcError, and
\* any RpcError of the second attempt (which is made outside the try), is
\* raised.
RaceOpAnswer(t) ==
    /\ thr[t].pc = "rpc_wait"
    /\ \E a \in {"ok", "unauth", "error"} :
         IF a = "ok" THEN RaceGoto(t, "returned")
         ELSE IF a = "unauth" /\ thr[t].ops = 1 /\ refresh_possible(self)
         THEN thr' = [thr EXCEPT ![t].pc = "refresh_wait", ![t].ctx = "retry",
                                ![t].error = "rpc:unauth"]
         ELSE RaceRaise(t, IF a = "unauth" THEN "rpc:unauth" ELSE "rpc:error")
    /\ UNCHANGED <<self, chan, files, now, timers, hist>>

RaceNext ==
    \/ Tick
    \/ \E t \in Racers :
         \/ RaceEnsure(t)
         \/ RaceRefreshFails(t)
         \/ RaceAnswer(t)
         \/ RaceSetAccess(t)
         \/ RaceSetRefresh(t)
         \/ RaceSetExpiry(t)
         \/ RacePersist(t)
         \/ RaceInvoke(t)
         \/ RaceOpAnswer(t)

RaceSpec == RaceInit /\ [][RaceNext]_vars

\* No thread is between the first assignment of refresh_access_token and its
\* return.
NoRefreshUnderWay ==
    \A t \in Racers : thr[t].pc \notin {"set_access", "set_refresh", "set_expiry", "persist"}

\* C24: whenever no refresh is under way, the token triple in memory and the
\* triple of the record the client holds and hands to the store are those of
\* the refreshes applied one after the other, the last completed one last:
\* never fields of two answers mixed.
C24_NoLostUpdate ==
    NoRefreshUnderWay =>
        /\ Tokens(self) = hist.serial
        /\ <<Get(self.enrollment_data, "accessToken"),
              Get(self.enrollment_data, "refreshToken"),
              GetInt(self.enrollment_data, "accessTokenExpiresAt")>> = hist.serial

\* C25: _call_with_auth refreshes after a call only when that call was its
\* first attempt and failed with UNAUTHENTICATED; an error of another status
\* is raised as it is, with nothing refreshed or called again; a second
\* attempt is made only after that refresh succeeded; and when that refresh
\* fails, the operation is not called again and the UNAUTHENTICATED error of
\* the first attempt is what is raised.
C25_RetryOnlyOnUnauthenticated ==
    [][\A t \in Racers :
         /\ (thr[t].pc = "rpc_wait" /\ thr'[t].pc = "refresh_wait") =>
               /\ thr[t].ops = 1
               /\ thr'[t].ctx = "retry"
               /\ thr'[t].error = "rpc:unauth"
         /\ (thr[t].pc = "rpc_wait" /\ thr'[t].pc = "raised") =>
               /\ thr'[t].error \in {"rpc:unauth", "rpc:error"}
               /\ self' = self /\ files' = files
         /\ (thr[t].pc = "metadata" /\ thr'[t].pc = "rpc_wait" /\ thr'[t].ops = 2) =>
               /\ thr[t].ctx = "retry"
               /\ thr[t].response # NoneDict
         /\ thr'[t].ops <= 2
         /\ (thr[t].pc = "refresh_wait" /\ thr[t].ctx = "retry"
               /\ thr'[t].pc = "raised") =>
               /\ thr'[t].error = "rpc:unauth"
               /\ thr'[t].ops = 1]_vars

\* C25 witness: a call was answered UNAUTHENTICATED at its first attempt, the
\* refresh that followed failed, and the call has raised the UNAUTHENTICATED
\* error without a second attempt.
C25_Witness ==
    \E t \in Racers :
        /\ thr[t].pc = "raised" /\ thr[t].ctx = "retry"
        /\ thr[t].error = "rpc:unauth"
        /\ thr[t].ops = 1
        /\ thr[t].response = NoneDict

\* C26: a _call_with_auth whose _ensure_access_token fails ends by raising
\* RuntimeError with its operation never invoked, and a call that has ended
\* invokes nothing afterwards; a call that had to refresh first invokes the
\* operation only after that refresh succeeded; and every invocation carries
\* the access token the client holds at the moment the metadata is built,
\* which stays with the call in flight whatever the client holds later.
C26_NoCallWithoutToken ==
    [][\A t \in Racers :
         /\ (thr[t].pc \in {"idle", "refresh_wait"} /\ thr[t].ctx # "retry"
               /\ thr'[t].pc = "raised") =>
               /\ thr'[t].ops = 0
               /\ thr'[t].error = "RuntimeError"
         /\ thr[t].pc \in {"raised", "returned"} => thr'[t] = thr[t]
         /\ (thr[t].pc # "rpc_wait" /\ thr'[t].pc = "rpc_wait") =>
               /\ thr[t].pc = "metadata"
               /\ thr'[t].metadata = self.access_token
               /\ Truthy(thr'[t].metadata)
               /\ thr[t].ctx = "ensure" => thr[t].response # NoneDict
         /\ (thr[t].pc = "rpc_wait" /\ thr'[t].pc = "rpc_wait") =>
               thr'[t].metadata = thr[t].metadata]_vars

\* C26 witness: one thread's _call_with_auth has raised RuntimeError at its
\* start without invoking anything, while the other thread's call is in
\* flight with the token it read.
C26_Witness ==
    \E t, u \in Racers :
        /\ thr[t].pc = "raised" /\ thr[t].ctx = "ensure"
        /\ thr[t].error = "RuntimeError" /\ thr[t].ops = 0
        /\ thr[u].pc = "rpc_wait" /\ thr[u].metadata = self.access_token

\* Thread t's refresh_access_token returns True in this step: the answer was
\* a success and the save went through, and the caller goes on.
RefreshReturnsTrue(t) ==
    /\ thr[t].pc = "refresh_wait"
    /\ thr'[t].pc \in {"start_hb", "rpc_wait"}

\* C27: a successful refresh replaces the access token and its expiry by
\* those of the answer, in memory and in the persisted record; the refresh
\* token, in memory and persisted, is replaced by the answer's when the
\* answer carries one and is left as it was when it carries none.
C27_RefreshReplacesTokens ==
    [][\A t \in Threads :
         RefreshReturnsTrue(t) =>
            \E response \in RefreshResponses(now) :
               LET before == load_enrollment_data(files)
                   after == load_enrollment_data(files')
                   carries == response.refresh_token # ""
               IN /\ self'.access_token = response.access_token
                  /\ self'.access_token_expires_at = response.access_token_expires_at
                  /\ self'.refresh_token = IF carries THEN response.refresh_token
                                           ELSE self.refresh_token
                  /\ after # NoneDict
                  /\ Get(after, "accessToken") = response.access_token
                  /\ GetInt(after, "accessTokenExpiresAt")
                        = response.access_token_expires_at
                  /\ Get(after, "refreshToken") = IF carries THEN response.refresh_token
                                                  ELSE Get(before, "refreshToken")]_vars

\* A heartbeat fires in this step on thread t and is selected to carry full
\* info: the first one, which start_heartbeat sends on the main thread, or
\* one of a Timer that finds last_full_info_time FULL_INFO_SECONDS old.
FullInfoSelected(t) ==
    /\ self.running
    /\ IF t = Main
       THEN thr[Main].pc = "start_hb" /\ thr'[Main].pc # "start_hb"
       ELSE /\ t[1] = "hb"
            /\ timers[t] = "pending" /\ timers'[t] = "free"
            /\ thr'[t].pc # "idle"
            /\ now - self.last_full_info_time >= FULL_INFO_SECONDS

\* C28: every heartbeat firing that is selected to carry full info sets
\* last_full_info_time to now before the Heartbeat call is made, whether or
\* not system info was there to attach and whatever becomes of the call, so
\* that the next full-info attempt is FULL_INFO_SECONDS later at the
\* earliest; and last_full_info_time never decreases.
C28_FullInfoTimeReset ==
    [][/\ \A t \in Threads :
            FullInfoSelected(t) =>
               /\ self'.last_full_info_time = now
               /\ thr'[t].pc # "rpc_wait"
       /\ self'.last_full_info_time >= self.last_full_info_time]_vars

\* C28, amended: a heartbeat firing that is selected to carry full info and
\* whose system info is collected (with data or with nothing to attach) sets
\* last_full_info_time to now before the Heartbeat call is made, whatever
\* becomes of the call; one whose collection raises ends without a call and
\* leaves last_full_info_time as it was; last_full_info_time never
\* decreases.
C28_FullInfoTimeResetWhenCollected ==
    [][/\ \A t \in Threads :
            FullInfoSelected(t) =>
               IF thr'[t].pc = "ensure"
               THEN /\ self'.last_full_info_time = now
                    /\ thr'[t].payload \in {"timestamp", "timestamp+system_info"}
               ELSE /\ thr'[t].pc = "cwa_done" /\ thr'[t].outcome = "raised"
                    /\ self'.last_full_info_time = self.last_full_info_time
       /\ self'.last_full_info_time >= self.last_full_info_time]_vars

\* C28 witness: a Timer's heartbeat that found last_full_info_time
\* FULL_INFO_SECONDS old was selected to carry full info and had none to
\* attach; it stands before its call with the timestamp only, and
\* last_full_info_time is now.
C28_Witness ==
    \E t \in TimerIds :
        /\ thr[t].pc = "ensure" /\ thr[t].kind = "hb"
        /\ thr[t].payload = "timestamp"
        /\ self.last_full_info_time = now
        /\ now >= StartInstant + FULL_INFO_SECONDS

\* Thread t invokes the remote operation of its send in this step.
Invokes(t) == thr[t].pc # "rpc_wait" /\ thr'[t].pc = "rpc_wait"

\* C29: no remote operation is invoked on a channel that stop() has closed:
\* however stop() and the sending threads interleave, a send that passed
\* its running check before stop() ran does not invoke its operation once
\* the channel is closed.
C29_NoCallOnClosedChannel ==
    [][\A t \in Threads : Invokes(t) => chan # "closed"]_vars

\* ------------------------------------------------ the main thread, fair
\* What the main thread does by itself, from main() to the return of stop():
\* its own statements, and the ends of the calls it waits for, which all
\* carry a timeout.  The interrupt is not among them: it comes from outside.
MainStep ==
    \/ LoadExisting
    \/ Enroll
    \/ EnrollFails
    \/ EnrollSucceeds
    \/ Connect
    \/ \E k \in Kinds : StartReporting(k)
    \/ WaitEnds
    \/ StopRunning
    \/ StopTimers
    \/ StopClose
    \/ MainReturns
    \/ EnsureAccessToken(Main)
    \/ RefreshFails(Main)
    \/ RefreshSucceeds(Main)
    \/ OpAnswer(Main)
    \/ SendDone(Main)
    \/ Create(Main)

\* The program with a main thread that is not starved: when it can take a
\* step, it takes one in the end.
FairSpec == Spec /\ WF_vars(MainStep)

\* stop() has returned on the main thread and left the session as it says:
\* no Timer in the three attributes, and the channel closed.
CleanlyStopped ==
    /\ thr[Main].pc \in {"stopped", "done"}
    /\ \A k \in Kinds : self[TimerField(k)] = 0
    /\ chan = "closed"
    /\ ~self.running

\* C30: once a Heartbeat answer with alive=false has set running to False,
\* the main thread leaves its wait loop and runs stop(), and the session
\* ends with every timer attribute cleared and the channel closed.
C30_AliveFalseLeadsToStop == hist.aliveFalse ~> CleanlyStopped
====
